---- MODULE Spec2Model ----
(***************************************************************************)
(* The history store of openweather/app.py: a bounded in-memory history    *)
(* (a deque with maxlen), loaded once from weather_history.json, appended  *)
(* to and written back by update_weather, and converted at read time to    *)
(* the unit system selected by the unit toggle.                            *)
(*                                                                         *)
(* Numbers.  The code computes on Python floats.  A number is modelled as  *)
(* an exact rational <<n, d>> in lowest terms with d > 0; the IEEE         *)
(* rounding of each operation (relative error about 2^-53) is not          *)
(* modelled, and "within tolerance" is compared against Tolerance.         *)
(*                                                                         *)
(* Entries.  A sample is a Python dict: a function from the keys it has to *)
(* their values.  A key the dict lacks is a key outside DOMAIN.            *)
(***************************************************************************)
EXTENDS Integers, Sequences, FiniteSets, TLC

VARIABLES
    weather_history,  \* contents of the deque held by the reactive value
    file,             \* weather_history.json: [state, content]
    unit_toggle,      \* input.unit_toggle()
    phase,            \* "start" before load_initial_history ran, then "running"
    clock,            \* number of update_weather runs so far; also the wall clock
    last,             \* the handler that ran last, and what it met
    raised,           \* the exception that escaped the last handler, or "none"
    converted,        \* the last value computed by converted_history
    displayed         \* the last value computed by history_df

vars ==
    <<weather_history, file, unit_toggle, phase, clock, last, raised, converted,
      displayed>>

----------------------------------------------------------------------------
(* Bounds of the model *)

\* capacity of the deque.  The code sets 168; the model runs the same code
\* with a small capacity so that overflow and eviction happen.
MAX_HISTORY == 3

\* update_weather runs explored in one behaviour
MaxClock == 4

\* longest history file of specification ConvSpec
MaxConvFileLen == 2

\* longest history file of specification FullSpec
MaxFullFileLen == 1

\* a history file of specification Spec holds up to MAX_HISTORY + 1 records,
\* one more than the deque can hold
MaxFileLen == MAX_HISTORY + 1

----------------------------------------------------------------------------
(* Rational arithmetic standing for Python's float arithmetic *)

Abs(x) == IF x < 0 THEN -x ELSE x

RECURSIVE GCD(_, _)
GCD(a, b) == IF b = 0 THEN a ELSE GCD(b, a % b)

\* the rational n/d in lowest terms, d > 0
Rat(n, d) ==
    LET g == GCD(Abs(n), Abs(d))
        s == IF d < 0 THEN -1 ELSE 1
    IN  <<(s * n) \div g, (s * d) \div g>>

Num(i) == <<i, 1>>

\* a * b, cancelling across before multiplying
RMul(a, b) ==
    LET g1 == GCD(Abs(a[1]), b[2])
        g2 == GCD(Abs(b[1]), a[2])
        h1 == IF g1 = 0 THEN 1 ELSE g1
        h2 == IF g2 = 0 THEN 1 ELSE g2
    IN  Rat((a[1] \div h1) * (b[1] \div h2), (a[2] \div h2) * (b[2] \div h1))

\* a / b, b # 0
RDiv(a, b) == RMul(a, Rat(b[2], b[1]))

RAdd(a, b) == Rat(a[1] * b[2] + b[1] * a[2], a[2] * b[2])

RSub(a, b) == RAdd(a, <<-b[1], b[2]>>)

RLeq(a, b) == a[1] * b[2] <= b[1] * a[2]

RAbs(a) == <<Abs(a[1]), a[2]>>

Tolerance == Rat(1, 1000000)

\* |a - b| <= Tolerance
Close(a, b) == RLeq(RAbs(RSub(a, b)), Tolerance)

----------------------------------------------------------------------------
(* Samples *)

UnitSystems == {"metric", "imperial"}

\* the keys converted_history reads with entry[...]
RequiredFields ==
    {"city", "temperature", "humidity", "pressure", "wind_speed",
     "weather_condition", "timestamp"}

Has(entry, key) == key \in DOMAIN entry

\* the dict without the key
Without(entry, key) == [k \in DOMAIN entry \ {key} |-> entry[k]]

\* the dict after entry[key] = value
With(entry, key, value) ==
    [k \in DOMAIN entry \cup {key} |-> IF k = key THEN value ELSE entry[k]]

\* what the weather provider answers for a city, in the units asked for
ApiData(unit_system) ==
    IF unit_system = "metric"
    THEN [temp |-> Num(20), humidity |-> 50, pressure |-> Num(1013),
          speed |-> Num(5), main |-> "Clear"]
    ELSE [temp |-> Num(68), humidity |-> 50, pressure |-> Rat(2991, 100),
          speed |-> Rat(23, 2), main |-> "Rain"]

\* the dict fetch_weather builds from a good response
Sample(city, data, unit_system, timestamp) ==
    [city |-> city,
     temperature |-> data.temp,
     humidity |-> data.humidity,
     pressure |-> data.pressure,
     wind_speed |-> data.speed,
     weather_condition |-> data.main,
     unit_system |-> unit_system,
     timestamp |-> timestamp]

Cities == {"", "Dallas"}

\* what can come of one call of fetch_weather
FetchOutcomes ==
    {"ok", "network_error", "http_error", "missing_key", "empty_weather_list"}

\* mutant of fetch_weather: a response without main.temp yields a dict
\* without temperature instead of None
fetch_weather_PartialDict(city, unit_system, outcome, now) ==
    CASE outcome \in {"ok", "missing_key"} ->
            [kind |-> "sample",
             value |-> IF outcome = "ok"
                       THEN Sample(city, ApiData(unit_system), unit_system, now)
                       ELSE Without(Sample(city, ApiData(unit_system), unit_system, now),
                                    "temperature"),
             exc |-> "none"]
      [] outcome \in {"network_error", "http_error"} ->
            [kind |-> "none", value |-> <<>>, exc |-> "none"]
      [] OTHER ->
            [kind |-> "raise", value |-> <<>>, exc |-> "IndexError"]

\* fetch_weather(city, unit_system) under the outcome the environment picks:
\* [kind |-> "sample", value |-> dict], [kind |-> "none"] when the except
\* clause returns None, [kind |-> "raise", exc |-> name] when an exception
\* that the except clause does not name leaves the function
fetch_weather(city, unit_system, outcome, now) ==
    CASE outcome = "ok" ->
            [kind |-> "sample",
             value |-> Sample(city, ApiData(unit_system), unit_system, now),
             exc |-> "none"]
      [] outcome \in {"network_error", "http_error", "missing_key"} ->
            [kind |-> "none", value |-> <<>>, exc |-> "none"]
      [] OTHER ->
            [kind |-> "raise", value |-> <<>>, exc |-> "IndexError"]

----------------------------------------------------------------------------
(* Unit conversion *)

\* mutant of convert_temperature: the way back lacks its parentheses,
\* temp - 32 * 5/9
convert_temperature_NoParens(temp, from_unit, to_unit) ==
    IF from_unit = to_unit THEN temp
    ELSE IF from_unit = "metric" /\ to_unit = "imperial"
         THEN RAdd(RDiv(RMul(temp, Num(9)), Num(5)), Num(32))
         ELSE RSub(temp, RDiv(RMul(Num(32), Num(5)), Num(9)))

convert_temperature(temp, from_unit, to_unit) ==
    IF from_unit = to_unit THEN temp
    ELSE IF from_unit = "metric" /\ to_unit = "imperial"
         THEN RAdd(RDiv(RMul(temp, Num(9)), Num(5)), Num(32))
         ELSE RDiv(RMul(RSub(temp, Num(32)), Num(5)), Num(9))

\* mutant of convert_speed: both directions multiply
convert_speed_AlwaysMultiply(speed, from_unit, to_unit) ==
    IF from_unit = to_unit THEN speed
    ELSE RMul(speed, Rat(2237, 1000))

convert_speed(speed, from_unit, to_unit) ==
    IF from_unit = to_unit THEN speed
    ELSE IF from_unit = "metric" /\ to_unit = "imperial"
         THEN RMul(speed, Rat(2237, 1000))
         ELSE RDiv(speed, Rat(2237, 1000))

convert_pressure(pressure, from_unit, to_unit) ==
    IF from_unit = to_unit THEN pressure
    ELSE IF from_unit = "metric" /\ to_unit = "imperial"
         THEN RMul(pressure, Rat(2953, 100000))
         ELSE RDiv(pressure, Rat(2953, 100000))

\* entry.get("unit_system", "metric")
EntryUnits(entry) ==
    IF Has(entry, "unit_system") THEN entry.unit_system ELSE "metric"

\* entry[...] raises KeyError for some key the else branch reads
RaisesKeyError(entry) == \E k \in RequiredFields : ~Has(entry, k)

\* mutant of ConvertEntry: the keys are read before the units are compared,
\* so that KeyError also skips an entry in the target's units
ConvertEntry_ReadsKeysFirst(entry, current_units) ==
    LET entry_units == EntryUnits(entry)
    IN  IF RaisesKeyError(entry)
        THEN <<>>
        ELSE IF entry_units = current_units
             THEN <<entry>>
             ELSE <<[city |-> entry.city,
                     temperature |->
                         convert_temperature(entry.temperature, entry_units, current_units),
                     humidity |-> entry.humidity,
                     pressure |->
                         convert_pressure(entry.pressure, entry_units, current_units),
                     wind_speed |->
                         convert_speed(entry.wind_speed, entry_units, current_units),
                     weather_condition |-> entry.weather_condition,
                     unit_system |-> current_units,
                     timestamp |-> entry.timestamp]>>

\* one turn of the loop of converted_history: the entries it appends to
\* converted for this entry (one, or none when KeyError is caught)
ConvertEntry(entry, current_units) ==
    LET entry_units == EntryUnits(entry)
    IN  IF entry_units = current_units
        THEN <<entry>>
        ELSE IF RaisesKeyError(entry)
             THEN <<>>
             ELSE <<[city |-> entry.city,
                     temperature |->
                         convert_temperature(entry.temperature, entry_units, current_units),
                     humidity |-> entry.humidity,
                     pressure |->
                         convert_pressure(entry.pressure, entry_units, current_units),
                     wind_speed |->
                         convert_speed(entry.wind_speed, entry_units, current_units),
                     weather_condition |-> entry.weather_condition,
                     unit_system |-> current_units,
                     timestamp |-> entry.timestamp]>>

\* the loop of converted_history over a history list
RECURSIVE ConvertList(_, _)
ConvertList(history, current_units) ==
    IF history = <<>> THEN <<>>
    ELSE ConvertEntry(Head(history), current_units)
             \o ConvertList(Tail(history), current_units)

current_unit_system == IF unit_toggle THEN "imperial" ELSE "metric"

converted_history == ConvertList(weather_history, current_unit_system)

----------------------------------------------------------------------------
(* The deque and the history file *)

\* deque(items, maxlen): the last maxlen items
Deque(items, maxlen) ==
    IF Len(items) <= maxlen THEN items
    ELSE SubSeq(items, Len(items) - maxlen + 1, Len(items))

\* mutant of DequeAppend: a full deque drops the item it was given last
DequeAppend_DropNewest(items, item, maxlen) ==
    IF Len(items) < maxlen THEN Append(items, item)
    ELSE Append(SubSeq(items, 1, Len(items) - 1), item)

\* deque.append(item) on a deque with maxlen: a full deque drops its
\* leftmost item
DequeAppend(items, item, maxlen) == Deque(Append(items, item), maxlen)

NoFile == [state |-> "absent", content |-> <<>>]

\* a file json.load raises on: cut short by a failed write, or not JSON
CorruptFile == [state |-> "corrupt", content |-> <<>>]

\* the file after json.dump(list(current_history), f) went through
json_dump(history) == [state |-> "json", content |-> history]

\* mutant of FillDefaults: the default is written over every entry
FillDefaults_Overwrite(history) ==
    [i \in 1..Len(history) |-> With(history[i], "unit_system", "metric")]

\* the loop over the loaded list: every entry without unit_system gets
\* "metric"
FillDefaults(history) ==
    [i \in 1..Len(history) |->
        IF Has(history[i], "unit_system") THEN history[i]
        ELSE With(history[i], "unit_system", "metric")]

\* mutant of SaveFile: the list is dumped before the new sample is appended
SaveFile_BeforeAppend(old, history, outcome) ==
    CASE outcome = "ok" -> json_dump(SubSeq(history, 1, Len(history) - 1))
      [] outcome = "open_failed" -> old
      [] OTHER -> CorruptFile

\* what can come of the with-block that saves the history
SaveOutcomes == {"ok", "open_failed", "write_failed"}

\* the file after lines 203-207 under the outcome the environment picks:
\* open() raising leaves the file as it was, a write raising after open()
\* truncated it leaves a file that is no longer JSON
SaveFile(old, history, outcome) ==
    CASE outcome = "ok" -> json_dump(history)
      [] outcome = "open_failed" -> old
      [] OTHER -> CorruptFile

----------------------------------------------------------------------------
(* Histories a file can hold *)

SeqsUpTo(S, n) == UNION {[1..k -> S] : k \in 0..n}

MetricRecord == Sample("Dallas", ApiData("metric"), "metric", 0)

ImperialRecord == Sample("Plano", ApiData("imperial"), "imperial", 0)

\* a record written by dashboard/app.py, which stores no unit_system
LegacyRecord == Without(Sample("Austin", ApiData("metric"), "metric", 0), "unit_system")

\* records of the files of Spec
FileRecords == {MetricRecord, ImperialRecord, LegacyRecord}

\* records of the files of ConvSpec: the three above, and each of them
\* with one of the required keys missing
ConvFileRecords ==
    FileRecords \cup
    {Without(r, k) : r \in FileRecords, k \in RequiredFields}

Files(records, n) ==
    {NoFile, CorruptFile} \cup {json_dump(h) : h \in SeqsUpTo(records, n)}

----------------------------------------------------------------------------
(* The application *)

Event(op, fetch, save, gets) ==
    [op |-> op, fetch |-> fetch, save |-> save, gets |-> gets]

NotComputed == [units |-> "none", rows |-> <<>>]

NotDisplayed == [hours |-> -1, rows |-> <<>>]

\* the state after the module ran, with one of these files on disk and the
\* wall clock at start
InitAt(files, start) ==
    /\ weather_history = <<>>
    /\ file \in files
    /\ unit_toggle = FALSE
    /\ phase = "start"
    /\ clock = start
    /\ last = Event("init", "not_called", "not_called", 0)
    /\ raised = "none"
    /\ converted = NotComputed
    /\ displayed = NotDisplayed

InitWith(files) == InitAt(files, 1)

Init == InitWith(Files(FileRecords, MaxFileLen))

ConvInit == InitWith(Files(ConvFileRecords, MaxConvFileLen))

\* FullSpec starts late enough for three runs of update_weather
FullInit == InitAt(Files(FileRecords, MaxFullFileLen), MaxClock - 2)

\* mutant of LoadedHistory: deque(history) built without maxlen
LoadedHistory_NoMaxlen(f, old) ==
    IF f.state = "json" THEN FillDefaults(f.content) ELSE old

\* mutant of LoadedHistory: a missing file is answered by storing a first
\* sample, as load_initial_history of dashboard/app.py does
LoadedHistory_FetchWhenAbsent(f, old) ==
    IF f.state = "json"
    THEN Deque(FillDefaults(f.content), MAX_HISTORY)
    ELSE IF f.state = "absent" THEN <<MetricRecord>> ELSE old

\* the buffer after load_initial_history met this file
LoadedHistory(f, old) ==
    IF f.state = "json"
    THEN Deque(FillDefaults(f.content), MAX_HISTORY)
    ELSE old

load_initial_history ==
    /\ phase = "start"
    /\ phase' = "running"
    /\ weather_history' = LoadedHistory(file, weather_history)
    /\ raised' = "none"
    /\ last' = Event("load_initial_history", "not_called", "not_called", 0)
    /\ UNCHANGED <<file, unit_toggle, clock, converted, displayed>>

\* the user flips the "Use Fahrenheit" switch
toggle_units ==
    /\ phase = "running"
    /\ unit_toggle' = ~unit_toggle
    /\ raised' = "none"
    /\ last' = Event("unit_toggle", "not_called", "not_called", 0)
    /\ UNCHANGED <<weather_history, file, phase, clock, converted, displayed>>

\* mutant of HistoryAfterConversion: the entries are converted in place,
\* entry["temperature"] = convert_temperature(...) and so on, instead of
\* into new dicts
HistoryAfterConversion_InPlace(history, current_units) ==
    ConvertList(history, current_units)

\* the deque after converted_history ran over it: the function copies the
\* deque into a list, reads the entries, appends them or new dicts to its
\* own list and assigns to no entry, so the deque is as it was
HistoryAfterConversion(history, current_units) == history

\* an output asks for converted_history()
render_converted_history ==
    /\ phase = "running"
    /\ converted' = [units |-> current_unit_system, rows |-> converted_history]
    /\ weather_history' = HistoryAfterConversion(weather_history, current_unit_system)
    /\ raised' = "none"
    /\ last' = Event("converted_history", "not_called", "not_called", 0)
    /\ UNCHANGED <<file, unit_toggle, phase, clock, displayed>>

\* seq[start:] of Python: a negative start counts from the end and is
\* clipped at the front, a start past the end gives the empty list
SliceFrom(seq, start) ==
    LET from0 == IF start < 0
                 THEN (IF Len(seq) + start < 0 THEN 0 ELSE Len(seq) + start)
                 ELSE (IF start > Len(seq) THEN Len(seq) ELSE start)
    IN  SubSeq(seq, from0 + 1, Len(seq))

\* history[-hours:] if hours <= len(history) else history
FilterHours(history, hours) ==
    IF hours <= Len(history) THEN SliceFrom(history, -hours) ELSE history

\* the numbers the "History Hours" box can send: min=1 and max=MAX_HISTORY
\* are hints to the browser, the server takes the number typed
HoursValues == 0..(MAX_HISTORY + 1)

\* an output asks for history_df(), which asks for converted_history()
history_df(hours) ==
    /\ phase = "running"
    /\ converted' = [units |-> current_unit_system, rows |-> converted_history]
    /\ displayed' = [hours |-> hours, rows |-> FilterHours(converted_history, hours)]
    /\ weather_history' = HistoryAfterConversion(weather_history, current_unit_system)
    /\ raised' = "none"
    /\ last' = Event("history_df", "not_called", "not_called", 0)
    /\ UNCHANGED <<file, unit_toggle, phase, clock>>

\* the buffer after update_weather got this from fetch_weather
UpdatedHistory(old, fetched) ==
    IF fetched.kind = "sample"
    THEN DequeAppend(old, fetched.value, MAX_HISTORY)
    ELSE old

\* the user presses "Get Weather" with this city in the text box; the
\* environment picks how the request and the save go
update_weather(city, outcome, save) ==
    /\ phase = "running"
    /\ clock <= MaxClock
    /\ clock' = clock + 1
    /\ IF city = ""
       THEN /\ last' = Event("update_weather", "not_called", "not_called", 0)
            /\ raised' = "none"
            /\ UNCHANGED <<weather_history, file>>
       ELSE LET fetched == fetch_weather(city, current_unit_system, outcome, clock)
                current_history == UpdatedHistory(weather_history, fetched)
            IN  IF fetched.kind = "sample"
                THEN /\ weather_history' = current_history
                     /\ file' = SaveFile(file, current_history, save)
                     /\ raised' = "none"
                     /\ last' = Event("update_weather", outcome, save, 1)
                ELSE /\ raised' = fetched.exc
                     /\ last' = Event("update_weather", outcome, "not_called", 1)
                     /\ UNCHANGED <<weather_history, file>>
    /\ UNCHANGED <<unit_toggle, phase, converted, displayed>>

\* the inputs of one run of update_weather: the city, how the request
\* goes when one is made, how the save goes when a sample came back
UpdateInputs ==
    {<<city, outcome, save>> \in Cities \X FetchOutcomes \X SaveOutcomes :
        /\ city = "" => outcome = "ok"
        /\ (city = "" \/ outcome # "ok") => save = "ok"}

Next ==
    \/ load_initial_history
    \/ toggle_units
    \/ \E input \in UpdateInputs : update_weather(input[1], input[2], input[3])

Spec == Init /\ [][Next]_vars

ConvNext ==
    \/ load_initial_history
    \/ toggle_units
    \/ render_converted_history

ConvSpec == ConvInit /\ [][ConvNext]_vars

\* every handler, from short files
FullNext ==
    \/ load_initial_history
    \/ toggle_units
    \/ render_converted_history
    \/ \E input \in UpdateInputs : update_weather(input[1], input[2], input[3])

FullSpec == FullInit /\ [][FullNext]_vars

\* load, unit switch and the history table, from the files of Spec
ViewNext ==
    \/ load_initial_history
    \/ toggle_units
    \/ \E hours \in HoursValues : history_df(hours)

ViewSpec == Init /\ [][ViewNext]_vars

----------------------------------------------------------------------------
(* Properties of the history buffer, checked under Spec *)

Min(a, b) == IF a <= b THEN a ELSE b

AfterLoad == last.op = "load_initial_history"

AfterAppend == last.op = "update_weather" /\ last.fetch = "ok"

\* C1: the history buffer never holds more than MAX_HISTORY samples,
\* whatever was loaded and however many samples were appended.
C1_BufferBounded == Len(weather_history) <= MAX_HISTORY

\* C1 witness: a file with more records than the deque holds was loaded and
\* the buffer is full.
C1_Witness ==
    /\ AfterLoad
    /\ file.state = "json"
    /\ Len(file.content) > MAX_HISTORY
    /\ Len(weather_history) = MAX_HISTORY

\* C2: an append is FIFO.  In every step in which update_weather appended a
\* sample, the new buffer ends with that sample, everything before it is
\* the old buffer in its order, and when the old buffer was full exactly its
\* oldest entry is gone (capacity 3: [A,B,C] and D give [B,C,D]).  By
\* induction n appends to L leave the last min(len(L)+n, capacity) elements
\* of L followed by s1..sn.
C2_AppendIsFIFO ==
    [][(last'.op = "update_weather" /\ last'.fetch = "ok") =>
        LET old == weather_history
            new == weather_history'
            dropped == Len(old) + 1 - Len(new)
        IN  /\ Len(new) = Min(Len(old) + 1, MAX_HISTORY)
            /\ dropped = (IF Len(old) = MAX_HISTORY THEN 1 ELSE 0)
            /\ new[Len(new)].timestamp = clock
            /\ new[Len(new)].unit_system = current_unit_system
            /\ \A i \in 1..(Len(new) - 1) : new[i] = old[i + dropped]
      ]_vars

\* C2 witness: the buffer is full of fetched samples and the sample fetched
\* first is no longer in it: it was evicted by a later append.
C2_Witness ==
    /\ AfterAppend
    /\ Len(weather_history) = MAX_HISTORY
    /\ weather_history[1].timestamp = 2
    /\ weather_history[MAX_HISTORY].timestamp = clock - 1

\* C3 as claimed: whenever update_weather appended a sample, the file holds
\* exactly the buffer.
C3_FileEqualsBufferAfterAppend ==
    AfterAppend => (file.state = "json" /\ file.content = weather_history)

\* C3 as amended: whenever update_weather appended a sample and the save did
\* not raise, the file holds exactly the buffer; when the save raised, the
\* error was caught, the buffer still holds the new sample, and the file is
\* what it was or is cut short.
C3_FileEqualsBufferAfterSave ==
    AfterAppend =>
        /\ raised = "none"
        /\ weather_history # <<>>
        /\ weather_history[Len(weather_history)].timestamp = clock - 1
        /\ last.save = "ok" =>
               (file.state = "json" /\ file.content = weather_history)

\* C3 witness: a save went through after an append that evicted an entry
\* loaded from the file.
C3_Witness ==
    /\ AfterAppend
    /\ last.save = "ok"
    /\ Len(weather_history) = MAX_HISTORY
    /\ weather_history[1].timestamp = 0
    /\ file.content = weather_history

\* C4: when the request fails (network error, HTTP error status, missing
\* key in the response) or the city is empty, update_weather leaves the
\* buffer and the file as they were, makes at most one request, and lets no
\* exception escape.
C4_FailedFetchDropped ==
    [][(/\ last'.op = "update_weather"
        /\ last'.fetch \in {"network_error", "http_error", "missing_key", "not_called"})
       => /\ weather_history' = weather_history
          /\ file' = file
          /\ raised' = "none"
          /\ last'.gets <= 1
          /\ last'.save = "not_called"
      ]_vars

\* C4 witness: a response with a missing key was dropped while the buffer
\* held samples and the file existed.
C4_Witness ==
    /\ last.op = "update_weather"
    /\ last.fetch = "missing_key"
    /\ weather_history # <<>>
    /\ file.state = "json"

\* C5: after load_initial_history read a file, the buffer holds the records
\* the deque keeps (the last MAX_HISTORY of the file) in the file's order;
\* a record without unit_system has unit_system = "metric", a record with
\* unit_system keeps it, every other key has the persisted value, and no
\* exception escaped.
C5_LoadFillsUnitSystem ==
    (AfterLoad /\ file.state = "json") =>
        LET n == Len(weather_history)
            skip == Len(file.content) - n
        IN  /\ raised = "none"
            /\ n = Min(Len(file.content), MAX_HISTORY)
            /\ \A i \in 1..n :
                 LET rec == file.content[i + skip]
                     entry == weather_history[i]
                 IN  /\ DOMAIN entry = DOMAIN rec \cup {"unit_system"}
                     /\ entry.unit_system =
                            (IF "unit_system" \in DOMAIN rec
                             THEN rec.unit_system ELSE "metric")
                     /\ \A k \in DOMAIN rec \ {"unit_system"} : entry[k] = rec[k]

\* C5 witness: a file holding a record without unit_system after a record
\* tagged imperial was loaded.
C5_Witness ==
    /\ AfterLoad
    /\ file.state = "json"
    /\ Len(file.content) = 2
    /\ file.content[1] = ImperialRecord
    /\ file.content[2] = LegacyRecord
    /\ Len(weather_history) = 2
    /\ weather_history[2].unit_system = "metric"

\* C6: when the history file does not exist, load_initial_history leaves
\* the buffer empty, lets no exception escape and does not create the file.
C6_MissingFileLoadsEmpty ==
    [][(phase = "start" /\ phase' = "running" /\ file.state = "absent") =>
        /\ weather_history' = <<>>
        /\ file' = file
        /\ raised' = "none"
      ]_vars

\* C6 witness: load_initial_history ran with no file.
C6_Witness ==
    /\ AfterLoad
    /\ file.state = "absent"
    /\ weather_history = <<>>

----------------------------------------------------------------------------
(* Properties of the conversion, checked under ConvSpec *)

Other(u) == IF u = "metric" THEN "imperial" ELSE "metric"

Complete(entry) == RequiredFields \subseteq DOMAIN entry

\* converted_history keeps this entry for the target u
Kept(entry, u) == EntryUnits(entry) = u \/ Complete(entry)

\* the place in the output of the i-th entry of the history, when kept
Place(history, u, i) == Cardinality({k \in 1..i : Kept(history[k], u)})

AfterRender == last.op = "converted_history"

\* C7: conversion is the identity on matching entries and idempotent.  For
\* every target, every buffer entry whose unit system is the target is in
\* the output with every key unchanged; a buffer of matching entries comes
\* back as it is; converting the output again to the same target changes
\* nothing, also for the value converted_history last computed.
C7_IdentityAndIdempotence ==
    /\ \A u \in UnitSystems :
         LET out == ConvertList(weather_history, u)
         IN  /\ \A i \in 1..Len(weather_history) :
                   EntryUnits(weather_history[i]) = u =>
                       /\ Place(weather_history, u, i) \in 1..Len(out)
                       /\ out[Place(weather_history, u, i)] = weather_history[i]
             /\ (\A i \in 1..Len(weather_history) :
                    EntryUnits(weather_history[i]) = u) => out = weather_history
             /\ ConvertList(out, u) = out
    /\ converted.units \in UnitSystems =>
           ConvertList(converted.rows, converted.units) = converted.rows

\* C7 witness: converted_history ran on a buffer holding an entry in the
\* target's units after an entry in the other units, and returned both.
C7_Witness ==
    /\ AfterRender
    /\ Len(weather_history) = 2
    /\ Complete(weather_history[1])
    /\ EntryUnits(weather_history[1]) = Other(current_unit_system)
    /\ EntryUnits(weather_history[2]) = current_unit_system
    /\ converted.units = current_unit_system
    /\ Len(converted.rows) = 2
    /\ converted.rows[2] = weather_history[2]

\* the three keys of a agree with those of b within Tolerance
SameNumbers(a, b) ==
    /\ Close(a.temperature, b.temperature)
    /\ Close(a.pressure, b.pressure)
    /\ Close(a.wind_speed, b.wind_speed)

\* C8: round trip.  For every complete buffer entry s tagged U and the
\* other system V, converting s to V and the result back to U gives one
\* entry whose temperature, pressure and wind_speed are those of s within
\* Tolerance and whose city, humidity, weather_condition, timestamp and
\* unit_system are those of s exactly.
C8_RoundTrip ==
    \A i \in 1..Len(weather_history) :
        LET s == weather_history[i]
            U == EntryUnits(s)
            there == ConvertList(<<s>>, Other(U))
            back == ConvertList(there, U)
        IN  (Complete(s) /\ U \in UnitSystems) =>
                /\ Len(there) = 1
                /\ there[1].unit_system = Other(U)
                /\ Len(back) = 1
                /\ SameNumbers(back[1], s)
                /\ back[1].city = s.city
                /\ back[1].humidity = s.humidity
                /\ back[1].weather_condition = s.weather_condition
                /\ back[1].timestamp = s.timestamp
                /\ back[1].unit_system = U

\* C8 witness: the buffer holds a complete metric entry and a complete
\* imperial entry, and the conversion to the other system changes the
\* numbers of each.
C8_Witness ==
    /\ phase = "running"
    /\ Len(weather_history) = 2
    /\ weather_history[1] = MetricRecord
    /\ weather_history[2] = ImperialRecord
    /\ ConvertList(weather_history, "imperial")[1].wind_speed # MetricRecord.wind_speed
    /\ ConvertList(weather_history, "metric")[2].temperature # ImperialRecord.temperature

\* C9 as claimed: for every target, converted_history returns exactly the
\* complete entries of the buffer, in their order: an entry missing a
\* required key is not in the output, whether or not its unit system is the
\* target.
C9_IncompleteEntriesSkipped ==
    \A u \in UnitSystems :
        LET out == ConvertList(weather_history, u)
            complete == SelectSeq(weather_history, Complete)
        IN  /\ Len(out) = Len(complete)
            /\ \A j \in 1..Len(out) :
                   /\ Complete(out[j])
                   /\ out[j].timestamp = complete[j].timestamp
                   /\ out[j].city = complete[j].city

\* the formulas of the conversion, as the specification states them
SpecTemperature(x, from) ==
    IF from = "metric" THEN RAdd(RMul(x, Rat(9, 5)), Num(32))
    ELSE RMul(RSub(x, Num(32)), Rat(5, 9))

SpecSpeed(x, from) ==
    IF from = "metric" THEN RMul(x, Rat(2237, 1000)) ELSE RDiv(x, Rat(2237, 1000))

SpecPressure(x, from) ==
    IF from = "metric" THEN RMul(x, Rat(2953, 100000)) ELSE RDiv(x, Rat(2953, 100000))

\* C10: for every target u and every complete buffer entry e whose unit
\* system is the other one, the output holds at e's place an entry tagged u
\* whose temperature, wind_speed and pressure are e's converted by the
\* stated formulas from e's own unit system, and whose humidity,
\* weather_condition, city and timestamp are e's; temperature 20 metric
\* becomes 68 imperial.
C10_ConvertedByFormulas ==
    \A u \in UnitSystems :
        LET out == ConvertList(weather_history, u)
        IN  \A i \in 1..Len(weather_history) :
                LET e == weather_history[i]
                    from == EntryUnits(e)
                    j == Place(weather_history, u, i)
                IN  (Complete(e) /\ from = Other(u)) =>
                        /\ j \in 1..Len(out)
                        /\ DOMAIN out[j] = RequiredFields \cup {"unit_system"}
                        /\ out[j].unit_system = u
                        /\ out[j].temperature = SpecTemperature(e.temperature, from)
                        /\ out[j].wind_speed = SpecSpeed(e.wind_speed, from)
                        /\ out[j].pressure = SpecPressure(e.pressure, from)
                        /\ out[j].humidity = e.humidity
                        /\ out[j].weather_condition = e.weather_condition
                        /\ out[j].city = e.city
                        /\ out[j].timestamp = e.timestamp
                        /\ (from = "metric" /\ e.temperature = Num(20)) =>
                               out[j].temperature = Num(68)

\* C10 witness: converted_history turned a metric entry of temperature 20
\* into an imperial entry of temperature 68.
C10_Witness ==
    /\ AfterRender
    /\ weather_history # <<>>
    /\ weather_history[1] = MetricRecord
    /\ converted.units = "imperial"
    /\ converted.rows # <<>>
    /\ converted.rows[1].temperature = Num(68)
    /\ converted.rows[1].unit_system = "imperial"

----------------------------------------------------------------------------
(* Properties of the whole application, checked under FullSpec *)

\* C11: conversion is read-only.  A step in which converted_history was
\* evaluated, or the unit switch was flipped, leaves the buffer (every
\* entry with all its keys, its recorded unit_system among them) and the
\* file as they were; the buffer changes only in a step of
\* load_initial_history or update_weather, and the file only in a step of
\* update_weather.
C11_ConversionReadOnly ==
    [][/\ last'.op \in {"converted_history", "unit_toggle"} =>
            (weather_history' = weather_history /\ file' = file)
       /\ weather_history' # weather_history =>
            last'.op \in {"load_initial_history", "update_weather"}
       /\ file' # file => (last'.op = "update_weather" /\ last'.fetch = "ok")
      ]_vars

\* C11 witness: after an update stored a metric sample and saved it, the
\* switch was flipped and converted_history returned the sample in
\* imperial units, and buffer and file still hold the metric sample.
C11_Witness ==
    /\ AfterRender
    /\ unit_toggle
    /\ weather_history # <<>>
    /\ weather_history[Len(weather_history)].unit_system = "metric"
    /\ weather_history[Len(weather_history)].timestamp > 0
    /\ converted.units = "imperial"
    /\ Len(converted.rows) = Len(weather_history)
    /\ converted.rows[Len(converted.rows)].unit_system = "imperial"
    /\ converted.rows[Len(converted.rows)].temperature = Num(68)
    /\ file.state = "json"
    /\ file.content = weather_history

----------------------------------------------------------------------------
(* Properties of the history table, checked under ViewSpec *)

\* the last n entries of seq, n >= 0
LastN(seq, n) == SubSeq(seq, Len(seq) - Min(n, Len(seq)) + 1, Len(seq))

\* C12 as claimed: for the converted history H and the hours value h it was
\* computed from, history_df holds the most recent min(h, len(H)) entries
\* of H in order, so never more than h entries, also for h = 0 and for
\* h > len(H).
C12_LastHoursEntries ==
    last.op = "history_df" =>
        /\ displayed.rows = LastN(converted.rows, displayed.hours)
        /\ Len(displayed.rows) <= displayed.hours

\* what the code does: the claim's statement for every h >= 1, and the
\* whole of H for h = 0
C12_WholeHistoryAtZero ==
    last.op = "history_df" =>
        /\ displayed.hours >= 1 =>
               /\ displayed.rows = LastN(converted.rows, displayed.hours)
               /\ Len(displayed.rows) <= displayed.hours
        /\ displayed.hours = 0 => displayed.rows = converted.rows

====
